---- MODULE Spec2Model ----
(***************************************************************************)
(* ProgramMailAssembler (src/ProgramMailAssembler.py).                     *)
(*                                                                         *)
(* Texts are TLA+ strings handled character by character.  The helpers     *)
(* below follow Python's conventions: positions are 0-based, a search that *)
(* fails yields -1, and Slice(s, a, b) is s[a:b].                          *)
(***************************************************************************)
EXTENDS Integers, Sequences, FiniteSets, TLC

VARIABLES
    pc,             \* position of the running function
    input,          \* the structured description the input texts were built from
    s,              \* CheckBalance: the text still to scan
    nesting,        \* CheckBalance: the stack of open delimiters
    delim,          \* CheckBalance: the delimiter of the last iteration
    ret,            \* CheckBalance: the value returned ("none" while running)
    markuplines,    \* main: the schedule document
    mainNode,       \* main: the tree Resolve builds from the schedule document
    mailFormat,     \* main: the MailFormat parameter
    peoplefile,     \* main: the text of "Program participants.xml"
    people,         \* main: the ParmDict of people, each a ParmDict of columns
    template,       \* main: the text of the template, then what is left of it
    header,         \* main: the selection's column header
    selectionvalue, \* main: the selection's value
    emailbody,      \* main: the template's email body
    idx,            \* main: how many persons "for person in mainNode" has fetched
    thismail,       \* main: the mail being substituted into
    file,           \* main: what was written to the output file, write by write
    log             \* what LogError and MessageLog were given, and Log about a skip or a stop

balanceVars == <<s, nesting, delim, ret>>

mainVars == <<mailFormat, peoplefile, people, template, header, selectionvalue,
              emailbody, idx, thismail, file, log>>

vars == <<pc, input, s, nesting, delim, ret, markuplines, mainNode, mailFormat,
          peoplefile, people, template, header, selectionvalue, emailbody, idx,
          thismail, file, log>>

-----------------------------------------------------------------------------
(* Bounds of the model. *)

MaxPieces == 3

MaxPersons == 2

-----------------------------------------------------------------------------
(* Python's str operations. *)

\* F(x), with x worked out once however often F uses it.
Once(x, F(_)) == CHOOSE out \in {F(v) : v \in {x}} : TRUE

Min(S) == CHOOSE x \in S : \A y \in S : x <= y

Slice(str, a, b) == SubSeq(str, a + 1, b)

SliceFrom(str, a) == SubSeq(str, a + 1, Len(str))

CharAt(str, i) == SubSeq(str, i + 1, i + 1)

\* The searches below look at the text ScanBlock positions at a time.
ScanBlock == 16

\* str.find(sub, start)
RECURSIVE FindFrom(_, _, _)
FindFrom(str, sub, start) ==
    Once(start, LAMBDA from :
        LET last == Len(str) - Len(sub)
            upto == IF from + ScanBlock - 1 < last THEN from + ScanBlock - 1 ELSE last
            hits == {i \in from..upto : Slice(str, i, i + Len(sub)) = sub}
        IN  IF from > last THEN -1
            ELSE IF hits # {} THEN Min(hits)
            ELSE FindFrom(str, sub, upto + 1))

\* str.find(sub)
Find(str, sub) == Once(str, LAMBDA v : FindFrom(v, sub, 0))

\* The first position from start on that holds one of chars, -1 when there is none.
RECURSIVE FindAnyOf(_, _, _)
FindAnyOf(str, chars, start) ==
    Once(start, LAMBDA from :
        LET last == Len(str) - 1
            upto == IF from + ScanBlock - 1 < last THEN from + ScanBlock - 1 ELSE last
            hits == {i \in from..upto : CharAt(str, i) \in chars}
        IN  IF from > last THEN -1
            ELSE IF hits # {} THEN Min(hits)
            ELSE FindAnyOf(str, chars, upto + 1))

\* str.replace(old, new)
RECURSIVE ReplaceFrom(_, _, _, _)
ReplaceFrom(str, old, new, start) ==
    \* the text from position start on, with old replaced by new
    Once(FindFrom(str, old, start), LAMBDA i :
        IF i < 0 THEN SliceFrom(str, start)
        ELSE Slice(str, start, i) \o new \o ReplaceFrom(str, old, new, i + Len(old)))

Replace(str, old, new) == Once(str, LAMBDA v : ReplaceFrom(v, old, new, 0))

WhitespaceChars == {" ", "\t", "\n", "\r"}

AlnumChars ==
    {"a","b","c","d","e","f","g","h","i","j","k","l","m","n","o","p","q","r","s","t",
     "u","v","w","x","y","z",
     "A","B","C","D","E","F","G","H","I","J","K","L","M","N","O","P","Q","R","S","T",
     "U","V","W","X","Y","Z",
     "0","1","2","3","4","5","6","7","8","9"}

\* What Log (level "log"), LogError ("error") or MessageLog ("message") is given.
Entry(level, msg) == [level |-> level, msg |-> msg]

-----------------------------------------------------------------------------
(* LocateNextDelimiter and its two regular expressions. *)

NoMatch == [matched |-> FALSE, group |-> "", end |-> 0]

DelimiterChars == {"<", ">", "[", "]"}

\* re.match("^[^<]*?<([^<>\\[\\]]*?)>", s): the first "<", then a run free of
\* < > [ ] that a ">" ends.
MatchTag(str) ==
    Once(Find(str, "<"), LAMBDA p :
        Once(IF p < 0 THEN -1 ELSE FindAnyOf(str, DelimiterChars, p + 1), LAMBDA q :
            IF q < 0 THEN NoMatch
            ELSE IF CharAt(str, q) = ">"
                 THEN [matched |-> TRUE, group |-> Slice(str, p + 1, q), end |-> q + 1]
                 ELSE NoMatch))

\* re.match("^[^\[]*?\[\[([^<>\\[\\]]]*?)]", s): the first "[", a second "[", ONE
\* character that is none of < > [ ], any number of "]" taken lazily, and a "]".
MatchBracket(str) ==
    Once(Find(str, "["), LAMBDA p :
        IF p < 0 \/ p + 3 > Len(str) - 1 THEN NoMatch
        ELSE IF /\ CharAt(str, p + 1) = "["
                /\ CharAt(str, p + 2) \notin DelimiterChars
                /\ CharAt(str, p + 3) = "]"
             THEN [matched |-> TRUE, group |-> Slice(str, p + 2, p + 3), end |-> p + 4]
             ELSE NoMatch)

\* Returns <<delimiter, remaining text>>.
LocateNextDelimiter(str) ==
    IF str = "" THEN <<"", "">>
    ELSE Once(MatchTag(str), LAMBDA m1 :
         Once(MatchBracket(str), LAMBDA m2 :
             IF ~m1.matched /\ ~m2.matched THEN <<"", "">>
             ELSE IF m1.matched /\ ~m2.matched THEN <<m1.group, SliceFrom(str, m1.end)>>
             ELSE IF ~m1.matched /\ m2.matched THEN <<"[[", SliceFrom(str, m2.end)>>
             ELSE IF m1.end < m2.end THEN <<m1.group, SliceFrom(str, m1.end)>>
             ELSE <<"[[", SliceFrom(str, m2.end)>>))

-----------------------------------------------------------------------------
(* CheckBalance. *)

\* PushedName without the regular expression: the delimiter is pushed as found.
PushedNameWhole(d) == d

\* re.match("^([a-zA-Z0-9])\\s", delim): the name pushed for an opening delimiter.
PushedName(d) ==
    IF Len(d) >= 2 /\ CharAt(d, 0) \in AlnumChars /\ CharAt(d, 1) \in WhitespaceChars
    THEN CharAt(d, 0)
    ELSE d

\* One iteration of the while loop, from the text left and the stack; ret is
\* "none" when the loop goes on.
CheckBalanceIteration(str, stack) ==
    Once(LocateNextDelimiter(str), LAMBDA found :
        LET d == found[1]
            rest == found[2]
            top == stack[Len(stack)]
            popped == SubSeq(stack, 1, Len(stack) - 1)
            out(st, r, m) == [s |-> rest, nesting |-> st, delim |-> d, ret |-> r, msg |-> m]
        IN  IF d = "" /\ stack # <<>>
            THEN out(stack, "False", "Template error: Unbalanced delimiters found")
            ELSE IF d = "" THEN out(stack, "True", "")
            ELSE IF d = "[[" \/ CharAt(d, 0) # "/"
            THEN out(Append(stack, PushedName(d)), "none", "")
            ELSE IF stack = <<>> THEN out(stack, "False", "CheckBalance: Error -- missing ]]")
            ELSE IF d = "]]"
            THEN IF top # "[[" THEN out(popped, "False", "CheckBalance: Error -- Unbalanced [[]]")
                 ELSE out(popped, "none", "")
            ELSE IF top = SliceFrom(d, 1) THEN out(popped, "none", "")
            ELSE out(popped, "False", "CheckBalance: Error -- Unbalanced <>...</>"))

\* The whole function: the line ends are replaced by spaces, then the loop runs
\* until the text is used up or an iteration returns.  The result is what is
\* returned and what MessageLog is given.
RECURSIVE CheckBalanceLoop(_, _)
CheckBalanceLoop(str, stack) ==
    IF str = "" THEN [ret |-> "True", msg |-> ""]
    ELSE Once(CheckBalanceIteration(str, stack), LAMBDA r :
             IF r.ret = "none" THEN CheckBalanceLoop(r.s, r.nesting)
             ELSE [ret |-> r.ret, msg |-> r.msg])

CheckBalanceResult(text) == CheckBalanceLoop(Replace(text, "\n", " "), <<>>)

CheckBalance(text) == CheckBalanceResult(text).ret = "True"

-----------------------------------------------------------------------------
(* More of Python's str operations. *)

Max(S) == CHOOSE x \in S : \A y \in S : x >= y

UpperLetters ==
    <<"A","B","C","D","E","F","G","H","I","J","K","L","M","N","O","P","Q","R","S","T",
      "U","V","W","X","Y","Z">>

LowerLetters ==
    <<"a","b","c","d","e","f","g","h","i","j","k","l","m","n","o","p","q","r","s","t",
      "u","v","w","x","y","z">>

LowerChar(c) ==
    IF \E k \in 1..26 : UpperLetters[k] = c
    THEN LowerLetters[CHOOSE k \in 1..26 : UpperLetters[k] = c]
    ELSE c

\* str.lower()
RECURSIVE Lower(_)
Lower(str) ==
    Once(str, LAMBDA v :
        IF v = "" THEN "" ELSE LowerChar(CharAt(v, 0)) \o Lower(SliceFrom(v, 1)))

\* str.strip()
Strip(str) ==
    Once(str, LAMBDA v :
        Once({i \in 0..(Len(v) - 1) : CharAt(v, i) \notin WhitespaceChars}, LAMBDA keep :
            IF keep = {} THEN "" ELSE Slice(v, Min(keep), Max(keep) + 1)))

\* "".join(strs)
RECURSIVE Concat(_)
Concat(strs) ==
    Once(strs, LAMBDA v : IF v = <<>> THEN "" ELSE Head(v) \o Concat(Tail(v)))

\* str.count(sub) for a one-character sub
Count(str, c) ==
    Once(str, LAMBDA v : Cardinality({i \in 0..(Len(v) - 1) : CharAt(v, i) = c}))

-----------------------------------------------------------------------------
(* FindAnyBracketedText. *)

NameChars == AlnumChars \cup {" "}

\* The length of the run of tag-name characters that starts at position j.
RECURSIVE NameRun(_, _)
NameRun(str, j) ==
    Once(j, LAMBDA at :
        IF at < Len(str) /\ CharAt(str, at) \in NameChars THEN 1 + NameRun(str, at + 1) ELSE 0)

\* BracketAt with a greedy (.*): the contents run to the LAST </name>.
BracketAtGreedy(str, i, n) ==
    LET name == Slice(str, i + 1, i + 1 + n)
        close == "</" \o name \o ">"
        g == FindFrom(str, ">", i + 1 + n)
        ends == {c \in (g + 1)..(Len(str) - Len(close)) : Slice(str, c, c + Len(close)) = close}
    IN  IF g < 0 \/ ends = {}
        THEN [matched |-> FALSE, lead |-> str, bracket |-> "", contents |-> "", trail |-> ""]
        ELSE [matched |-> TRUE, lead |-> Slice(str, 0, i), bracket |-> name,
              contents |-> Slice(str, g + 1, Max(ends)),
              trail |-> SliceFrom(str, Max(ends) + Len(close))]

\* The pattern tried with its "<" at position i and a tag name of n characters:
\* [^>]*?> runs to the first ">" after the name, (.*?) to the first </name> after it.
BracketAt(str, i, n) ==
    LET name == Slice(str, i + 1, i + 1 + n)
        close == "</" \o name \o ">"
    IN  Once(FindFrom(str, ">", i + 1 + n), LAMBDA g :
        Once(IF g < 0 THEN -1 ELSE FindFrom(str, close, g + 1), LAMBDA c :
            IF c < 0
            THEN [matched |-> FALSE, lead |-> str, bracket |-> "", contents |-> "", trail |-> ""]
            ELSE [matched |-> TRUE, lead |-> Slice(str, 0, i), bracket |-> name,
                  contents |-> Slice(str, g + 1, c), trail |-> SliceFrom(str, c + Len(close))]))

\* The longest tag name, of at most n characters, with which the pattern matches
\* at position i; 0 when it matches with none.
RECURSIVE LongestName(_, _, _)
LongestName(str, i, n) ==
    Once(n, LAMBDA len :
        IF len = 0 THEN 0
        ELSE IF BracketAt(str, i, len).matched THEN len
        ELSE LongestName(str, i, len - 1))

\* re.search(r"^(.*?)<([a-zA-Z0-9 ]+)[^>]*?>(.*?)<\/\2>", s, re.DOTALL) from
\* position start on: the shortest lead, then the longest name, then the shortest
\* contents.
RECURSIVE FirstBracket(_, _)
FirstBracket(str, start) ==
    Once(FindFrom(str, "<", start), LAMBDA i :
        IF i < 0
        THEN [matched |-> FALSE, lead |-> str, bracket |-> "", contents |-> "", trail |-> ""]
        ELSE Once(LongestName(str, i, NameRun(str, i + 1)), LAMBDA n :
                 IF n > 0 THEN BracketAt(str, i, n) ELSE FirstBracket(str, i + 1)))

FindAnyBracketedText(str) == Once(str, LAMBDA v : FirstBracket(v, 0))

-----------------------------------------------------------------------------
(* class Node.  _value is a str (IsText) or a list of Nodes. *)

Node(key, value) == [Key |-> key, IsText |-> TRUE, Text |-> value, List |-> <<>>]

ListNode(key, value) == [Key |-> key, IsText |-> FALSE, Text |-> "", List |-> value]

AssertionError == "AssertionError"

\* Node.__getitem__ with a str index: the Text of the first child with that key.
GetItem(node, index) ==
    Once({k \in 1..Len(node.List) : node.List[k].Key = Lower(index)}, LAMBDA hits :
        IF hits = {} THEN AssertionError ELSE node.List[Min(hits)].Text)

\* Node.Resolve, for a node that holds text.
RECURSIVE Resolve(_)
RECURSIVE ResolveLoop(_, _, _)
ResolveLoop(node, text, out) ==
    LET done == IF out # <<>> THEN ListNode(node.Key, out) ELSE node
    IN  IF text = "" THEN done
        ELSE Once(FindAnyBracketedText(text), LAMBDA m :
                 IF m.bracket = "" /\ m.contents = ""
                 THEN IF m.trail # "" THEN Node(node.Key, m.trail) ELSE done
                 ELSE Once(Resolve(Node(m.bracket, m.contents)), LAMBDA child :
                          ResolveLoop(node, m.trail, Append(out, child))))

Resolve(node) == ResolveLoop(node, node.Text, <<>>)

-----------------------------------------------------------------------------
(* ParmDict(CaseInsensitiveCompare=True, IgnoreSpacesCompare=True) and         *)
(* FindBracketedText, both imported from HelpersPackage, as main uses them:  *)
(* a dictionary whose keys compare without case and spaces and whose lookup  *)
(* of a missing key gives None; the contents of the first <b>...</b> and the *)
(* text without that element, or "" and the text when there is none.        *)

None == "<None>"

NormKey(k) == Replace(Lower(k), " ", "")

ParmDictSet(d, k, v) ==
    Once(NormKey(k), LAMBDA key : [x \in DOMAIN d \cup {key} |-> IF x = key THEN v ELSE d[x]])

ParmDictExists(d, k) == NormKey(k) \in DOMAIN d

ParmDictGet(d, k) == Once(NormKey(k), LAMBDA key : IF key \in DOMAIN d THEN d[key] ELSE None)

FindBracketedText(str, b) ==
    LET open == "<" \o b \o ">"
        close == "</" \o b \o ">"
    IN  Once(Find(str, open), LAMBDA i :
        Once(IF i < 0 THEN -1 ELSE FindFrom(str, close, i + Len(open)), LAMBDA j :
            IF j < 0 THEN <<"", str>>
            ELSE <<Slice(str, i + Len(open), j),
                   Slice(str, 0, i) \o SliceFrom(str, j + Len(close))>>))

-----------------------------------------------------------------------------
(* main: reading the People table. *)

\* while len(peoplefile) > 0: the contents of each element, one per person.
RECURSIVE PeopleLines(_)
PeopleLines(text) ==
    IF text = "" THEN <<>>
    ELSE Once(FindAnyBracketedText(text), LAMBDA m : <<m.contents>> \o PeopleLines(m.trail))

\* while len(line) > 0: d[header]=value
RECURSIVE PersonColumns(_, _)
PersonColumns(line, d) ==
    IF line = "" THEN d
    ELSE Once(FindAnyBracketedText(line), LAMBDA m :
             Once(ParmDictSet(d, m.bracket, m.contents), LAMBDA added :
                 PersonColumns(m.trail, added)))

\* for line in peoplelines: the person is kept when it has columns and a full name.
RECURSIVE PeopleFrom(_, _)
PeopleFrom(lines, table) ==
    IF lines = <<>> THEN table
    ELSE Once(PersonColumns(Head(lines), <<>>), LAMBDA d :
             IF DOMAIN d # {} /\ ParmDictExists(d, "full name")
             THEN Once(ParmDictSet(table, ParmDictGet(d, "full name"), d), LAMBDA added :
                      PeopleFrom(Tail(lines), added))
             ELSE PeopleFrom(Tail(lines), table))

\* The two LogError of each person that has columns but no full name.
RECURSIVE PeopleErrors(_)
PeopleErrors(lines) ==
    IF lines = <<>> THEN <<>>
    ELSE Once(PersonColumns(Head(lines), <<>>), LAMBDA d :
             (IF DOMAIN d # {} /\ ~ParmDictExists(d, "full name")
              THEN <<Entry("error", "unable to find a Full Name"), Entry("error", "ParmDict=")>>
              ELSE <<>>)
             \o PeopleErrors(Tail(lines)))

-----------------------------------------------------------------------------
(* main: selection and substitution. *)

\* headervalue.strip().lower() != selectionvalue.lower(), without the case folding.
SelectionMatchesCase(headervalue, value) == Strip(headervalue) = value

\* not (headervalue.strip().lower() != selectionvalue.lower())
SelectionMatches(headervalue, value) == Lower(Strip(headervalue)) = Lower(value)

\* The Text of the last child of item with this key, "" when there is none.
ItemField(item, key) ==
    Once({k \in 1..Len(item.List) : item.List[k].Key = key}, LAMBDA hits :
        IF hits = {} THEN "" ELSE item.List[Max(hits)].Text)

\* The text of one item of the schedule, with what is added to items after it.
ItemText(item, format) ==
    LET title == ItemField(item, "title")
        participants == ItemField(item, "participants")
        precis == ItemField(item, "precis")
        equipment == ItemField(item, "equipment")
    IN  IF format = "html"
        THEN "<p><b>" \o title \o "</b></p>\n<p>" \o participants \o "</p>\n"
             \o (IF Len(equipment) > 0 THEN "<p>equipment: " \o equipment \o "</p>\n" ELSE "")
             \o (IF Len(precis) > 0 THEN "<p>" \o precis \o "</p>\n" ELSE "")
             \o "<p>" \o "\n"
        ELSE title \o "\n" \o participants \o "\n"
             \o (IF Len(equipment) > 0 THEN "equipment: " \o equipment \o "\n" ELSE "")
             \o (IF Len(precis) > 0 THEN precis \o "\n" ELSE "")
             \o "\n"

\* [[schedule]]: the items of the person, in order.
ScheduleItems(person, format) ==
    Once(SelectSeq(person.List, LAMBDA n : n.Key = "item"), LAMBDA items :
        Concat([k \in 1..Len(items) |-> ItemText(items[k], format)]))

\* tag.split("|") of a tag with two "|".
SplitBars(tag) ==
    Once(Find(tag, "|"), LAMBDA b1 :
        Once(FindFrom(tag, "|", b1 + 1), LAMBDA b2 :
            <<Slice(tag, 0, b1), Slice(tag, b1 + 1, b2), SliceFrom(tag, b2 + 1)>>))

\* What replaces the token tag (already lowered): the schedule, or the column's
\* value with its prefix and suffix, or None when the person has no such column.
TagValue(tag, person, columns, format) ==
    IF tag = "schedule" THEN ScheduleItems(person, format)
    ELSE Once(IF Count(tag, "|") = 2 THEN SplitBars(tag) ELSE <<"", tag, "">>, LAMBDA parts :
             Once(ParmDictGet(columns, parts[2]), LAMBDA val :
                 IF val = None THEN None
                 ELSE IF Len(val) > 0 THEN parts[1] \o val \o parts[3]
                 ELSE val))

\* One iteration of "while thismail.find("[[") >= 0": the mail after it, or None.
SubstituteOnce(mail, person, columns, format) ==
    Once(Find(mail, "[["), LAMBDA loc1 :
        Once(Find(SliceFrom(mail, loc1), "]]"), LAMBDA loc2 :
            IF loc2 < 0 THEN mail
            ELSE Once(Lower(Slice(mail, loc1 + 2, loc1 + loc2)), LAMBDA tag :
                     Once(TagValue(tag, person, columns, format), LAMBDA val :
                         LET start == Slice(mail, 0, loc1)
                             trail == SliceFrom(mail, loc1 + loc2 + 2)
                         IN  IF val = None THEN None ELSE start \o val \o trail))))

-----------------------------------------------------------------------------
(* Input documents.  A document is built from pieces, so that what it was    *)
(* meant to hold is known apart from the text the program reads.             *)

Piece(kind, name, text) == [kind |-> kind, name |-> name, text |-> text]

BalancePieces ==
    { Piece("open", "a", "<a>"),
      Piece("close", "a", "</a>"),
      Piece("openattr", "a", "<a href>"),
      Piece("openattr", "div", "<div class>"),
      Piece("close", "div", "</div>"),
      Piece("open", "full name", "<full name>"),
      Piece("close", "full name", "</full name>"),
      Piece("token", "", "[[x]]"),
      Piece("token", "", "[[full name]]"),
      Piece("lb", "", "[["),
      Piece("rb", "", "]]"),
      Piece("text", "", "t"),
      Piece("text", "", "\n") }

RECURSIVE SeqsUpTo(_, _)
SeqsUpTo(S, n) ==
    IF n = 0 THEN {<<>>}
    ELSE LET shorter == SeqsUpTo(S, n - 1)
         IN  shorter \cup {Append(q, x) : q \in {r \in shorter : Len(r) = n - 1}, x \in S}

PiecesText(ps) == Concat([k \in 1..Len(ps) |-> ps[k].text])

\* The schedule document: <person> records holding <full name>, <email> and <item>s.
Element(tag, contents) == "<" \o tag \o ">" \o contents \o "</" \o tag \o ">"

FieldsText(fields) == Concat([k \in 1..Len(fields) |-> Element(fields[k][1], fields[k][2])])

ItemsText(items) == Concat([k \in 1..Len(items) |-> Element("item", FieldsText(items[k]))])

PersonText(p) ==
    Element("person",
            Element("full name", p.fullname) \o Element("email", p.email) \o ItemsText(p.items))

ScheduleText(persons, sep) == Concat([k \in 1..Len(persons) |-> PersonText(persons[k]) \o sep])

PanelItem == <<<<"title", "Panel">>, <<"participants", "Ann, Bob">>, <<"precis", "none">>>>

TitleItem == <<<<"title", "Talk">>>>

EquipmentItem == <<<<"equipment", "mic">>, <<"title", "Demo">>, <<"participants", "Cy">>>>

SchedulePersons ==
    { [fullname |-> "Ann", email |-> "ann@x.com", items |-> <<PanelItem>>],
      [fullname |-> "Bob", email |-> "bob@x.com", items |-> <<>>],
      [fullname |-> "Cy Dee", email |-> "", items |-> <<TitleItem, EquipmentItem>>],
      [fullname |-> "", email |-> "n<o@x.com", items |-> <<>>] }

\* The People table: one <person> element per row, one element per column.
PeopleText(rows) == Concat([k \in 1..Len(rows) |-> Element("person", FieldsText(rows[k])) \o "\n"])

AnnTech == <<<<"Full Name", "Ann">>, <<"Track", "Tech">>, <<"nick", "Annie">>, <<"room", "101">>>>

AnnArt == <<<<"full name", "Ann">>, <<"track", "Art">>, <<"nick", "">>>>

BobTech ==
    <<<<"full name", "bob">>, <<"track", " TECH ">>, <<"nick", "[[email]]">>,
      <<"email", "bob@x.com">>>>

BobNoTrack == <<<<"full name", "Bob">>, <<"nick", "B">>>>

CyTech == <<<<"full name", "CyDee">>, <<"track", "tech">>, <<"nick", "">>, <<"room", "">>>>

NoName == <<<<"track", "Tech">>, <<"nick", "nobody">>>>

PeopleTables ==
    { <<AnnTech, BobTech, CyTech>>,
      <<AnnTech, BobNoTrack>>,
      <<NoName, AnnArt, BobTech>>,
      <<>> }

\* The template: a <select> element with its <header> and <value>, and the
\* <email body>; Absent stands for an element the template does not have.
Absent == "(absent)"

Optional(tag, contents) == IF contents = Absent THEN "" ELSE Element(tag, contents)

TemplateText(tp) ==
    (IF tp.select
     THEN Element("select", Optional("header", tp.header) \o Optional("value", tp.value))
     ELSE "")
    \o "\n" \o Optional("email body", tp.body)

Template(select, hdr, value, body) ==
    [select |-> select, header |-> hdr, value |-> value, body |-> body]

ScheduleTemplate == Template(TRUE, "Track", "tech", "Dear [[full name]],\n[[schedule]]")

\* Templates that differ in the email body.
BodyTemplates ==
    { Template(TRUE, "Track", "tech", body) :
        body \in { "Dear [[full name]],\n[[schedule]]",
                   "[[Hello, |Full Name|!]]",
                   "[[ (|nick|)]][[Room |room|.]]",
                   "To [[nick]]",
                   "[[Nick]] in [[room]]",
                   "Dear [[full name",
                   "[[x]]",
                   "No tokens." } }

\* Templates that differ in the selection.
SelectTemplates ==
    { Template(FALSE, Absent, Absent, "Dear [[full name]]"),
      Template(TRUE, Absent, "tech", "Dear [[full name]]"),
      Template(TRUE, " ", "tech", "Dear [[full name]]"),
      Template(TRUE, " track ", Absent, "Dear [[full name]]"),
      Template(TRUE, "track", "", "Dear [[full name]]"),
      Template(TRUE, "nick", " ", "Dear [[full name]]"),
      Template(TRUE, "TRACK", " Tech ", "Dear [[full name]]"),
      Template(TRUE, "track", "art", Absent),
      Template(TRUE, "room", "101", "") }

\* The runs of main: a template, a People table and a mail format.
MainRuns ==
    {<<tp, rows, "text">> : tp \in BodyTemplates, rows \in PeopleTables}
    \cup {<<ScheduleTemplate, rows, "html">> : rows \in PeopleTables}
    \cup {<<tp, rows, "text">> :
             tp \in SelectTemplates, rows \in {<<AnnTech, BobTech, CyTech>>, <<NoName, AnnArt, BobTech>>}}

-----------------------------------------------------------------------------
(* The variables of the functions a specification does not run. *)

BalanceUnused == s = "" /\ nesting = <<>> /\ delim = "" /\ ret = "none"

MainUnused ==
    /\ mailFormat = "" /\ peoplefile = "" /\ people = <<>> /\ template = ""
    /\ header = "" /\ selectionvalue = "" /\ emailbody = "" /\ idx = 0
    /\ thismail = "" /\ file = <<>> /\ log = <<>>

-----------------------------------------------------------------------------
(* CheckBalance run on a document, one loop iteration at a time. *)

BalanceInit ==
    \E ps \in SeqsUpTo(BalancePieces, MaxPieces) :
        /\ pc = "CheckBalance"
        /\ input = [pieces |-> ps]
        /\ s = PiecesText(ps)
        /\ nesting = <<>>
        /\ delim = ""
        /\ ret = "none"
        /\ markuplines = ""
        /\ mainNode = Node("Main", "")
        /\ MainUnused

\* nesting=[] and s=s.replace("\n", " ")
CheckBalanceEnter ==
    /\ pc = "CheckBalance"
    /\ pc' = "while"
    /\ nesting' = <<>>
    /\ s' = Replace(s, "\n", " ")
    /\ UNCHANGED <<input, delim, ret, markuplines, mainNode, mainVars>>

\* One iteration of "while s:".
CheckBalanceWhile ==
    /\ pc = "while"
    /\ s # ""
    /\ \E r \in {CheckBalanceIteration(s, nesting)} :
           /\ s' = r.s
           /\ nesting' = r.nesting
           /\ delim' = r.delim
           /\ ret' = r.ret
           /\ log' = IF r.msg # "" THEN Append(log, Entry("message", r.msg)) ELSE log
           /\ pc' = IF r.ret = "none" THEN "while" ELSE "return"
    /\ UNCHANGED <<input, markuplines, mainNode, mailFormat, peoplefile, people, template,
                   header, selectionvalue, emailbody, idx, thismail, file>>

\* The loop ends with the text used up: return True.
CheckBalanceReturn ==
    /\ pc = "while"
    /\ s = ""
    /\ ret' = "True"
    /\ pc' = "return"
    /\ UNCHANGED <<input, s, nesting, delim, markuplines, mainNode, mainVars>>

BalanceNext == CheckBalanceEnter \/ CheckBalanceWhile \/ CheckBalanceReturn

SpecBalance == BalanceInit /\ [][BalanceNext]_vars

-----------------------------------------------------------------------------
(* Node.Resolve run on a schedule document, and again on a leaf of the tree. *)

ResolveInit ==
    \E persons \in SeqsUpTo(SchedulePersons, MaxPersons), sep \in {"", "\n"} :
        /\ pc = "Resolve"
        /\ input = [schedule |-> persons, sep |-> sep]
        /\ markuplines = ScheduleText(persons, sep)
        /\ mainNode = Node("Main", ScheduleText(persons, sep))
        /\ BalanceUnused
        /\ MainUnused

\* mainNode=Node("Main", markuplines); mainNode.Resolve()
ResolveMain ==
    /\ pc = "Resolve"
    /\ mainNode' = Resolve(Node("Main", markuplines))
    /\ pc' = "resolved"
    /\ UNCHANGED <<input, markuplines, balanceVars, mainVars>>

\* Resolve called on the root when it stayed a leaf, or on a leaf child of a person.
ResolveLeaf ==
    /\ pc \in {"resolved", "resolved again"}
    /\ pc' = "resolved again"
    /\ \/ /\ mainNode.IsText
          /\ mainNode' = Resolve(mainNode)
       \/ \E i \in 1..Len(mainNode.List) :
          \E j \in 1..Len(mainNode.List[i].List) :
              /\ mainNode.List[i].List[j].IsText
              /\ mainNode' = [mainNode EXCEPT !.List[i].List[j] = Resolve(@)]
    /\ UNCHANGED <<input, markuplines, balanceVars, mainVars>>

ResolveNext == ResolveMain \/ ResolveLeaf

SpecResolve == ResolveInit /\ [][ResolveNext]_vars

-----------------------------------------------------------------------------
(* main, from the three input texts to the output file. *)

MainInit ==
    \E persons \in SeqsUpTo(SchedulePersons, MaxPersons), run \in MainRuns :
        /\ pc = "main"
        /\ input = [schedule |-> persons, rows |-> run[2], template |-> run[1]]
        /\ mailFormat = run[3]
        /\ markuplines = ScheduleText(persons, "\n")
        /\ peoplefile = PeopleText(run[2])
        /\ template = TemplateText(run[1])
        /\ mainNode = Node("Main", "")
        /\ people = <<>>
        /\ header = ""
        /\ selectionvalue = ""
        /\ emailbody = ""
        /\ idx = 0
        /\ thismail = ""
        /\ file = <<>>
        /\ log = <<>>
        /\ BalanceUnused

\* The schedule: newlines between elements removed, CheckBalance, Resolve.
ReadSchedule ==
    /\ pc = "main"
    /\ \E text \in {Replace(markuplines, ">\n<", "><")} :
       \E balance \in {CheckBalanceResult(text)} :
           /\ markuplines' = text
           /\ IF balance.ret # "True"
              THEN /\ log' = log \o <<Entry("message", balance.msg),
                                      Entry("log", "CheckBalance failed")>>
                   /\ pc' = "return"
                   /\ UNCHANGED mainNode
              ELSE /\ mainNode' = Resolve(Node("Main", text))
                   /\ pc' = "people"
                   /\ UNCHANGED log
    /\ UNCHANGED <<input, balanceVars, mailFormat, peoplefile, people, template, header,
                   selectionvalue, emailbody, idx, thismail, file>>

\* The People table, keyed by full name.
ReadPeople ==
    /\ pc = "people"
    /\ \E peoplelines \in {PeopleLines(peoplefile)} :
           /\ people' = PeopleFrom(peoplelines, <<>>)
           /\ log' = log \o PeopleErrors(peoplelines)
    /\ peoplefile' = ""
    /\ pc' = "template"
    /\ UNCHANGED <<input, balanceVars, markuplines, mainNode, mailFormat,
                   template, header, selectionvalue, emailbody, idx, thismail, file>>

\* The template: CheckBalance, the selection's header and value, the email body.
ReadTemplate ==
    /\ pc = "template"
    /\ \E sel \in {FindBracketedText(template, "select")} :
       \E hdr \in {FindBracketedText(sel[1], "header")} :
       \E val \in {FindBracketedText(hdr[2], "value")} :
       \E body \in {FindBracketedText(sel[2], "email body")} :
       \E balance \in {CheckBalanceResult(template)} :
       LET stop(msg) == /\ log' = Append(log, Entry("message", msg))
                        /\ pc' = "return"
       IN  IF balance.ret # "True"
           THEN /\ log' = log \o <<Entry("message", balance.msg),
                                   Entry("message", "The template failed the CheckBalance() test")>>
                /\ pc' = "return"
                /\ UNCHANGED <<template, header, selectionvalue, emailbody>>
           ELSE IF Len(sel[1]) = 0
           THEN /\ stop("Template does not contain a <selection>...</selection> element")
                /\ template' = sel[2]
                /\ UNCHANGED <<header, selectionvalue, emailbody>>
           ELSE IF Len(Lower(Strip(hdr[1]))) = 0
           THEN /\ stop("<select> element does not contain a <header>...</header> element")
                /\ template' = sel[2]
                /\ header' = Lower(Strip(hdr[1]))
                /\ UNCHANGED <<selectionvalue, emailbody>>
           ELSE IF Len(Strip(val[1])) = 0
           THEN /\ stop("<selection> element does not contain a <value>...</value> element")
                /\ template' = sel[2]
                /\ header' = Lower(Strip(hdr[1]))
                /\ selectionvalue' = Strip(val[1])
                /\ UNCHANGED emailbody
           ELSE /\ template' = body[2]
                /\ header' = Lower(Strip(hdr[1]))
                /\ selectionvalue' = Strip(val[1])
                /\ emailbody' = body[1]
                /\ IF Len(body[1]) = 0
                   THEN stop("Template does not contain an <email body>...</email body> element")
                   ELSE pc' = "open" /\ UNCHANGED log
    /\ UNCHANGED <<input, balanceVars, markuplines, mainNode, mailFormat, peoplefile,
                   people, idx, thismail, file>>

\* The name of the output file is taken out of the template, and with
\* open(inputFileName, "w") as file: the line with the time is written.
OpenOutput ==
    /\ pc = "open"
    /\ template' = FindBracketedText(template, "inputFileName")[2]
    /\ file' = <<"# datetime.now()\n\n">>
    /\ pc' = "for"
    /\ UNCHANGED <<input, balanceVars, markuplines, mainNode, mailFormat, peoplefile,
                   people, header, selectionvalue, emailbody, idx, thismail, log>>

\* What "for person in mainNode" goes through: the children, or, when the root
\* stayed text, its characters.
PersonCount == IF mainNode.IsText THEN Len(mainNode.Text) ELSE Len(mainNode.List)

\* The next person: skipped, or selected and its message opened.
NextPerson ==
    /\ pc \in {"for", "written"}
    /\ idx < PersonCount
    /\ idx' = idx + 1
    /\ \E person \in {IF mainNode.IsText THEN mainNode ELSE mainNode.List[idx + 1]} :
       \E fullname \in {GetItem(person, "full name")} :
       \E peopledata \in {ParmDictGet(people, fullname)} :
       \E headervalue \in {IF ParmDictExists(people, fullname) THEN ParmDictGet(peopledata, header) ELSE None} :
       \E emailAddr \in {GetItem(person, "email")} :
       LET skip(level, msg) == /\ log' = Append(log, Entry(level, msg))
                               /\ pc' = "for"
                               /\ UNCHANGED <<file, thismail>>
       IN  IF mainNode.IsText \/ fullname = AssertionError
           THEN pc' = "raised" /\ UNCHANGED <<file, thismail, log>>
           ELSE IF ~ParmDictExists(people, fullname)
           THEN skip("error", "not in People -- skipped.")
           ELSE IF ~ParmDictExists(peopledata, header)
           THEN skip("error", "not in People's column headers -- skipped.")
           ELSE IF ~SelectionMatches(headervalue, selectionvalue)
           THEN skip("log", "does not match -- skipped.")
           ELSE IF emailAddr = AssertionError
           THEN /\ file' = Append(file, "<email-message>")
                /\ pc' = "raised"
                /\ UNCHANGED <<thismail, log>>
           ELSE /\ file' = file \o <<"<email-message>",
                                     "<email-address>" \o emailAddr \o "</email-address>",
                                     "<content>">>
                /\ thismail' = emailbody
                /\ pc' = "substitute"
                /\ UNCHANGED log
    /\ UNCHANGED <<input, balanceVars, markuplines, mainNode, mailFormat, peoplefile,
                   people, template, header, selectionvalue, emailbody>>

\* One iteration of the substitution loop.
Substitute ==
    /\ pc = "substitute"
    /\ Find(thismail, "[[") >= 0
    /\ \E person \in {mainNode.List[idx]} :
       \E columns \in {ParmDictGet(people, GetItem(person, "full name"))} :
       \E mail \in {SubstituteOnce(thismail, person, columns, mailFormat)} :
           IF mail = None
           THEN /\ log' = Append(log, Entry("message", "Can't find tag in people.keys()"))
                /\ pc' = "return"
                /\ UNCHANGED thismail
           ELSE /\ thismail' = mail
                /\ UNCHANGED <<pc, log>>
    /\ UNCHANGED <<input, balanceVars, markuplines, mainNode, mailFormat, peoplefile,
                   people, template, header, selectionvalue, emailbody, idx, file>>

\* The loop is left: the mail and the end of the message are written.
WriteMail ==
    /\ pc = "substitute"
    /\ Find(thismail, "[[") < 0
    /\ file' = file \o <<thismail \o "\n", "</content>", "</email-message>\n\n\n">>
    /\ pc' = "written"
    /\ UNCHANGED <<input, balanceVars, markuplines, mainNode, mailFormat, peoplefile,
                   people, template, header, selectionvalue, emailbody, idx, thismail, log>>

\* The persons are used up: LogDisplayErrorsIfAny() and the end of main.
Finish ==
    /\ pc \in {"for", "written"}
    /\ idx >= PersonCount
    /\ pc' = "done"
    /\ UNCHANGED <<input, balanceVars, markuplines, mainNode, mainVars>>

MainNext ==
    \/ ReadSchedule
    \/ ReadPeople
    \/ ReadTemplate
    \/ OpenOutput
    \/ NextPerson
    \/ Substitute
    \/ WriteMail
    \/ Finish

SpecMain == MainInit /\ [][MainNext]_vars

\* main runs on: no step of it waits for anything.
FairMain == SpecMain /\ WF_vars(Substitute \/ WriteMail)

-----------------------------------------------------------------------------
(* What a document built from pieces was meant to be. *)

RemoveAt(q, k) == SubSeq(q, 1, k - 1) \o SubSeq(q, k + 1, Len(q))

\* Every opening piece is closed by the matching closing piece, properly nested.
RECURSIVE NestedFrom(_, _)
NestedFrom(ps, stack) ==
    IF ps = <<>> THEN stack = <<>>
    ELSE LET p == Head(ps)
             top == stack[Len(stack)]
             popped == SubSeq(stack, 1, Len(stack) - 1)
         IN  CASE p.kind \in {"open", "openattr"} -> NestedFrom(Tail(ps), Append(stack, p.name))
               [] p.kind = "lb" -> NestedFrom(Tail(ps), Append(stack, "[["))
               [] p.kind = "close" ->
                    stack # <<>> /\ top = p.name /\ NestedFrom(Tail(ps), popped)
               [] p.kind = "rb" ->
                    stack # <<>> /\ top = "[[" /\ NestedFrom(Tail(ps), popped)
               [] OTHER -> NestedFrom(Tail(ps), stack)

WellFormed(ps) == NestedFrom(ps, <<>>)

\* No opening tag carries attribute-like content.
PlainTags(ps) == \A k \in 1..Len(ps) : ps[k].kind # "openattr"

\* Well-formed but for one opening or closing delimiter.
OneUnmatched(ps) ==
    /\ ~WellFormed(ps)
    /\ \E k \in 1..Len(ps) :
          /\ ps[k].kind \in {"open", "close", "lb", "rb"}
          /\ WellFormed(RemoveAt(ps, k))

\* The text of d up to its first whitespace character.
UpToWhitespace(d) ==
    LET ws == {i \in 0..(Len(d) - 1) : CharAt(d, i) \in WhitespaceChars}
    IN  IF ws = {} THEN d ELSE Slice(d, 0, Min(ws))

\* The last iteration of CheckBalance pushed an opening delimiter.
JustPushed ==
    /\ pc = "while"
    /\ delim # ""
    /\ delim = "[[" \/ CharAt(delim, 0) # "/"

\* The tree of a schedule: the root over the persons, each person over its
\* "full name" and "email" leaves and its items, each item over its field leaves.
FieldNodes(fields) == [k \in 1..Len(fields) |-> Node(fields[k][1], fields[k][2])]

PersonTree(p) ==
    ListNode("person",
             <<Node("full name", p.fullname), Node("email", p.email)>>
                 \o [k \in 1..Len(p.items) |-> ListNode("item", FieldNodes(p.items[k]))])

ScheduleTree(persons) ==
    IF persons = <<>> THEN Node("Main", "")
    ELSE ListNode("Main", [k \in 1..Len(persons) |-> PersonTree(persons[k])])

\* The People table as its rows say it: the columns compare without case and
\* spaces, a person is the row with that full name.
SameKey(a, b) == NormKey(a) = NormKey(b)

RowHas(row, col) == \E k \in 1..Len(row) : SameKey(row[k][1], col)

RowValue(row, col) == row[Max({k \in 1..Len(row) : SameKey(row[k][1], col)})][2]

RowsOf(rows, name) ==
    {k \in 1..Len(rows) :
        RowHas(rows[k], "full name") /\ SameKey(RowValue(rows[k], "full name"), name)}

\* The selection predicate: the person is in the table, has the header column,
\* and the column's trimmed value is the expected value but for case.
Selected(p) ==
    \E k \in RowsOf(input.rows, p.fullname) :
        /\ RowHas(input.rows[k], Strip(input.template.header))
        /\ Lower(Strip(RowValue(input.rows[k], Strip(input.template.header))))
               = Lower(Strip(input.template.value))

\* The person is not in the table, or has no header column.
Unknown(p) ==
    \A k \in RowsOf(input.rows, p.fullname) :
        ~RowHas(input.rows[k], Strip(input.template.header))

AddressLine(p) == "<email-address>" \o p.email \o "</email-address>"

SelectedAddresses ==
    LET chosen == SelectSeq(input.schedule, Selected)
    IN  [k \in 1..Len(chosen) |-> AddressLine(chosen[k])]

\* The address lines of the messages begun in the output file, in order.
EmittedAddresses ==
    SelectSeq(file, LAMBDA c : Len(c) >= 15 /\ Slice(c, 0, 15) = "<email-address>")

IsPrefix(a, b) == Len(a) <= Len(b) /\ SubSeq(b, 1, Len(a)) = a

\* The errors logged about persons that were skipped.
SkipErrors ==
    SelectSeq(log, LAMBDA e :
        /\ e.level = "error"
        /\ e.msg \in {"not in People -- skipped.", "not in People's column headers -- skipped."})

LastMessage == IF log = <<>> THEN "" ELSE log[Len(log)].msg

\* The email body is one [[token]] and nothing else.
OneToken(body) ==
    /\ Len(body) >= 4
    /\ Slice(body, 0, 2) = "[["
    /\ Find(body, "]]") = Len(body) - 2
    /\ FindFrom(body, "[[", 1) < 0

\* The body with each of its [[token]]s replaced once, left to right, by what
\* the token stands for; what was put in is not looked at again.
RECURSIVE RenderOnce(_, _, _, _)
RenderOnce(body, person, columns, format) ==
    LET i == Find(body, "[[")
        j == IF i < 0 THEN -1 ELSE FindFrom(body, "]]", i)
    IN  IF j < 0 THEN body
        ELSE Slice(body, 0, i)
             \o TagValue(Lower(Slice(body, i + 2, j)), person, columns, format)
             \o RenderOnce(SliceFrom(body, j + 2), person, columns, format)

-----------------------------------------------------------------------------
(* The claims. *)

\* C1: CheckBalance returns True for every well-formed document (every <tag> has
\* its </tag>, every [[ its ]], properly nested), a [[token]] inside a tag pair and
\* a document that is only a [[token]] included.
C1_WellFormedIsBalanced ==
    (pc = "return" /\ PlainTags(input.pieces) /\ WellFormed(input.pieces)) => ret = "True"

\* C2: CheckBalance returns False for every document that is well-formed but for
\* one unmatched opening or closing delimiter, and whenever it ends with a
\* non-empty nesting stack.
C2_UnmatchedIsUnbalanced ==
    pc = "return" =>
        /\ (PlainTags(input.pieces) /\ OneUnmatched(input.pieces)) => ret = "False"
        /\ nesting # <<>> => ret = "False"

\* C6: resolving a schedule document of N person records gives a root with N
\* children in document order, each with leaf children "full name" and "email"
\* whose Text is the bracketed content verbatim; Resolve on a leaf changes nothing
\* (the tree is still the schedule's tree after it).
C6_ResolveRoundTrip ==
    pc \in {"resolved", "resolved again"} =>
        /\ Len(mainNode.List) = Len(input.schedule)
        /\ \A i \in 1..Len(input.schedule) :
              /\ mainNode.List[i].Key = "person"
              /\ GetItem(mainNode.List[i], "full name") = input.schedule[i].fullname
              /\ GetItem(mainNode.List[i], "email") = input.schedule[i].email
              /\ \A j \in 1..Len(mainNode.List[i].List) :
                    mainNode.List[i].List[j].Key \in {"full name", "email"}
                        => mainNode.List[i].List[j].IsText
        /\ mainNode = ScheduleTree(input.schedule)

\* C6's case: two person records resolved, and Resolve called again on a leaf.
C6_Witness ==
    /\ pc = "resolved again"
    /\ Len(input.schedule) = 2
    /\ Len(mainNode.List) = 2
    /\ input.schedule[1] # input.schedule[2]

\* C9 as stated: the name pushed for an opening tag is the token up to its first
\* whitespace character, whatever the length of the tag name.
C9_PushedNameTruncated ==
    JustPushed => nesting[Len(nesting)] = UpToWhitespace(delim)

\* C9 amended: the token is cut at its first whitespace character only when the
\* tag name is ONE alphanumeric character (the token's second character is
\* whitespace); every other token is pushed whole.
C9_PushedNameSingleCharacter ==
    JustPushed =>
        nesting[Len(nesting)] =
            IF /\ Len(delim) >= 2
               /\ CharAt(delim, 0) \in AlnumChars
               /\ CharAt(delim, 1) \in WhitespaceChars
            THEN UpToWhitespace(delim)
            ELSE delim

\* C9's case: <a href> pushed as a, and closed by </a>.
C9_Witness ==
    /\ pc = "return"
    /\ ret = "True"
    /\ delim = "/a"
    /\ \E k \in 1..Len(input.pieces) : input.pieces[k].text = "<a href>"

\* C3: when a token names a column the person's record does not have, the run
\* aborts with no partial output: the output file holds no email-message block,
\* neither of an earlier person nor the unfinished one of this person.
C3_AbortLeavesNoOutput ==
    (pc = "return" /\ LastMessage = "Can't find tag in people.keys()")
        => \A k \in 1..Len(file) : file[k] # "<email-message>"

\* C4: a token prefix|columnName|suffix is replaced by prefix + value + suffix,
\* prefix and suffix as the template writes them, when the value is not empty, and
\* by nothing when it is empty.
C4_PrefixValueSuffixAsWritten ==
    (pc = "written" /\ OneToken(emailbody) /\ Count(emailbody, "|") = 2) =>
        LET parts == SplitBars(Slice(emailbody, 2, Len(emailbody) - 2))
            row == input.rows[CHOOSE k \in RowsOf(input.rows, input.schedule[idx].fullname) : TRUE]
            value == RowValue(row, parts[2])
        IN  RowHas(row, parts[2]) =>
                thismail = IF value # "" THEN parts[1] \o value \o parts[3] ELSE ""

\* C5: substitution goes left to right and never scans what it put in: the mail
\* written is the body with each of its own [[token]]s replaced once by what the
\* token stands for.
C5_InsertedTextNotRescanned ==
    pc = "written" =>
        thismail = RenderOnce(emailbody, mainNode.List[idx],
                              ParmDictGet(people, input.schedule[idx].fullname), mailFormat)

\* C7: the messages in the output file are the persons of the schedule, in
\* document order, that the selection predicate selects; a person who is not in
\* the table or has no header column is skipped with a logged error and the run
\* goes on with the next person.
C7_EmittedAreSelectedInOrder ==
    \/ file = <<>>
    \/ Once(SelectedAddresses, LAMBDA selected :
        Once(EmittedAddresses, LAMBDA emitted :
           /\ IsPrefix(emitted, selected)
           /\ pc = "done" =>
                 /\ emitted = selected
                 /\ Len(SelectSeq(file, LAMBDA c : c = "</email-message>\n\n\n")) = Len(selected)
                 /\ Len(SkipErrors) = Len(SelectSeq(input.schedule, Unknown))))

\* C7's case: the first person lacks the header column and is skipped, the second
\* differs from the expected value in case only and is emitted.
C7_Witness ==
    /\ pc = "done"
    /\ Len(input.schedule) = 2
    /\ Unknown(input.schedule[1])
    /\ RowsOf(input.rows, input.schedule[1].fullname) # {}
    /\ Selected(input.schedule[2])
    /\ input.template.value = "tech"
    /\ EmittedAddresses = <<AddressLine(input.schedule[2])>>
    /\ Len(SkipErrors) = 1

\* C8: the selection's header and value must both be in the template, but the
\* value may be empty: a <select> with a <header> and an empty <value></value> is
\* accepted and the run goes on to select and render.
C8_EmptyValueAccepted ==
    (/\ input.template.select
     /\ input.template.header # Absent
     /\ Strip(input.template.header) # ""
     /\ input.template.value # Absent
     /\ input.template.body \notin {Absent, ""})
        => ~(pc = "return"
             /\ LastMessage = "<selection> element does not contain a <value>...</value> element")

\* C10: for a template CheckBalance accepts and a selected person, the
\* substitution loop terminates: the run writes the message or aborts.
C10_SubstitutionTerminates == (pc = "substitute") ~> (pc \in {"written", "return"})

====
